---- MODULE Spec2Model ----
(***************************************************************************)
(* cargo-crusader (src/main.rs): run() discovers the reverse dependents of *)
(* a crate, submits one job per dependent to a thread pool, each job       *)
(* resolves the dependent and builds it against the base and the next      *)
(* crate, and run() collects one TestResult per dependent in submission    *)
(* order through one mpsc channel per job.                                 *)
(*                                                                         *)
(* resolve_rev_dep_version (after a good registry answer),                 *)
(* compile_with_custom_dep and CompileResult::failed end in                *)
(* unimplemented!() in the source.  The panic they raise is modelled by    *)
(* ResolveUnimplemented and CompilePanic; what they are declared to return *)
(* (Result<RevDep, Error>, CompileResult, bool) is modelled by ResolveOk,  *)
(* BuildBase, BuildNext and CompileResult_failed.                          *)
(***************************************************************************)
EXTENDS Integers, Sequences, FiniteSets, TLC

\* ---- bounds of the model ----
\* the most names crates.io returns
MaxDeps == 3
\* the most CPUs num_cpus::get() reports
PoolSize == 2

\* names crates.io may return as reverse dependents
Names == {"A", "B"}

\* ---- values ----
None == "None"
ManifestPath == "./Cargo.toml"
CrateName == "crate"

\* enum Origin
Origin_Published == <<"Published">>
Origin_Source(p) == <<"Source", p>>

\* enum CrateOverride
CrateOverride_Default == <<"Default">>
CrateOverride_Source(p) == <<"Source", p>>

\* Version::parse("0.0.0").unwrap()
SentinelVersion == <<0, 0, 0>>

\* the versions crates.io lists for a crate (RegistryCrate.versions), newest first
RegistryVersions(name) == IF name = "A" THEN << <<2, 0, 0>>, <<1, 0, 0>> >> ELSE << <<1, 1, 0>> >>

\* the ways get_config fails
ConfigErrors == {"IoError", "TomlError", "ManifestName"}
\* the ways http_get_to_string fails
HttpErrors == {"CurlError", "HttpError", "Utf8Error"}
\* the ways get_rev_deps and resolve_rev_dep_version fail before their last line
RegistryErrors == HttpErrors \cup {"JsonDecode"}
\* the failures of resolve_rev_dep_version the jobs are run with: one of the
\* request, one of the decoding
ResolveErrors == {"HttpError", "JsonDecode"}

\* the Vec<RevDepName> crates.io may return.  The program never compares or
\* inspects a name, so one list of each length is taken: A, B, A, ... has
\* distinct neighbours and, from length three on, a name that comes back.
RevDepLists ==
    {l \in UNION {[1..n -> Names] : n \in 0..MaxDeps} :
        \A i \in 1..Len(l) : l[i] = IF i % 2 = 1 THEN "A" ELSE "B"}

VARIABLES
    pc,        \* where run() is
    config,    \* Config
    rev_deps,  \* Vec<RevDepName> of run()
    crates,    \* Crates
    pool,      \* ThreadPool: the number of its worker threads, 0 before it exists
    futures,   \* the TestResultFutures run() holds, in push order
    chan,      \* one mpsc channel per job: sender state and buffer
    queue,     \* the jobs the pool has accepted and no worker has started
    running,   \* the jobs a worker is executing
    job,       \* the closure of each job
    results,   \* the collected Vec<TestResult>
    runResult  \* what run() returns

vars == <<pc, config, rev_deps, crates, pool, futures, chan, queue, running, job, results, runResult>>

Jobs == 1..MaxDeps

\* ---- struct constructors ----
RevDep(name, vers) == [name |-> name, vers |-> vers]

CompileResult(krate, success) == [out |-> krate, success |-> success]

\* values of variables and fields that are not set yet
NoConfig == [manifest_path |-> None, crate_name |-> None, base_origin |-> <<>>, next_origin |-> <<>>]
NoCrates == [base |-> <<>>, next |-> <<>>]
NoRevDep == [name |-> None, vers |-> <<>>]
NoCompileResult == [out |-> <<>>, success |-> FALSE]
NoTestResult ==
    [rev_dep |-> NoRevDep,
     data |-> [kind |-> None, r1 |-> NoCompileResult, r2 |-> NoCompileResult, err |-> None]]
NoRunResult == [ok |-> FALSE, err |-> "pending", results |-> <<>>]

TestResult_broken(rev_dep, r) ==
    [rev_dep |-> rev_dep, data |-> [kind |-> "Broken", r1 |-> r, r2 |-> NoCompileResult, err |-> None]]

TestResult_fail(rev_dep, r1, r2) ==
    [rev_dep |-> rev_dep, data |-> [kind |-> "Fail", r1 |-> r1, r2 |-> r2, err |-> None]]

TestResult_pass(rev_dep, r1, r2) ==
    [rev_dep |-> rev_dep, data |-> [kind |-> "Pass", r1 |-> r1, r2 |-> r2, err |-> None]]

TestResult_error(rev_dep, e) ==
    [rev_dep |-> rev_dep, data |-> [kind |-> "Error", r1 |-> NoCompileResult, r2 |-> NoCompileResult, err |-> e]]

\* mutant: an Error verdict counts as a failure too
TestResult_failed_orError(r) == r.data.kind \in {"Fail", "Error"}

\* mutant: every verdict but Pass counts as a failure
TestResult_failed_notPass(r) == r.data.kind # "Pass"

TestResult_failed(r) == r.data.kind = "Fail"

CompileResult_failed(r) == ~r.success

acquire_crate(origin) ==
    IF origin = Origin_Published THEN CrateOverride_Default
    ELSE CrateOverride_Source(origin[2])

\* the closure run_test hands to the pool, before a worker starts it
\* mutant: the closure gets the two origins in the wrong order
NewJob_swapped(name, base, next) ==
    [pc |-> "queued", name |-> name, base_crate |-> next, next_crate |-> base,
     resp |-> None, rev_dep |-> NoRevDep, base_result |-> NoCompileResult,
     res |-> NoTestResult, calls |-> <<>>]

\* lines 282-287: what the closure of run_test captures, before it runs
NewJob(name, base, next) ==
    [pc |-> "queued", name |-> name, base_crate |-> base, next_crate |-> next,
     resp |-> None, rev_dep |-> NoRevDep, base_result |-> NoCompileResult,
     res |-> NoTestResult, calls |-> <<>>]

NoJob == [pc |-> "none", name |-> None, base_crate |-> <<>>, next_crate |-> <<>>,
          resp |-> None, rev_dep |-> NoRevDep, base_result |-> NoCompileResult,
     res |-> NoTestResult, calls |-> <<>>]

Init ==
    /\ pc = "get_config"
    /\ config = NoConfig
    /\ rev_deps = <<>>
    /\ crates = NoCrates
    /\ pool = 0
    /\ futures = <<>>
    /\ chan = [j \in Jobs |-> [tx |-> "none", buf |-> <<>>]]
    /\ queue = <<>>
    /\ running = {}
    /\ job = [j \in Jobs |-> NoJob]
    /\ results = <<>>
    /\ runResult = NoRunResult

\* ---- run(), lines 30-51 ----
GetConfigOk ==
    /\ pc = "get_config"
    /\ config' = [manifest_path |-> ManifestPath, crate_name |-> CrateName,
                  base_origin |-> Origin_Published, next_origin |-> Origin_Source(ManifestPath)]
    /\ pc' = "get_rev_deps"
    /\ UNCHANGED <<rev_deps, crates, pool, futures, chan, queue, running, job, results, runResult>>

GetConfigErr ==
    /\ pc = "get_config"
    /\ \E e \in ConfigErrors : runResult' = [ok |-> FALSE, err |-> e, results |-> <<>>]
    /\ pc' = "done"
    /\ UNCHANGED <<config, rev_deps, crates, pool, futures, chan, queue, running, job, results>>

GetRevDepsOk ==
    /\ pc = "get_rev_deps"
    /\ \E l \in RevDepLists : rev_deps' = l
    /\ pc' = "acquire_crates"
    /\ UNCHANGED <<config, crates, pool, futures, chan, queue, running, job, results, runResult>>

\* mutant: the error of get_rev_deps is recorded but run() goes on with a list
GetRevDepsErr_noReturn ==
    /\ pc = "get_rev_deps"
    /\ \E e \in RegistryErrors : runResult' = [ok |-> FALSE, err |-> e, results |-> <<>>]
    /\ \E l \in RevDepLists : rev_deps' = l
    /\ pc' = "acquire_crates"
    /\ UNCHANGED <<config, crates, pool, futures, chan, queue, running, job, results>>

GetRevDepsErr ==
    /\ pc = "get_rev_deps"
    /\ \E e \in RegistryErrors : runResult' = [ok |-> FALSE, err |-> e, results |-> <<>>]
    /\ pc' = "done"
    /\ UNCHANGED <<config, rev_deps, crates, pool, futures, chan, queue, running, job, results>>

AcquireCrates ==
    /\ pc = "acquire_crates"
    /\ crates' = [base |-> acquire_crate(config.base_origin),
                  next |-> acquire_crate(config.next_origin)]
    /\ pc' = "new_pool"
    /\ UNCHANGED <<config, rev_deps, pool, futures, chan, queue, running, job, results, runResult>>

\* line 36: ThreadPool::new(num_cpus::get())
NewPool ==
    /\ pc = "new_pool"
    /\ \E cpus \in 1..PoolSize : pool' = cpus
    /\ pc' = "submit"
    /\ UNCHANGED <<config, rev_deps, crates, futures, chan, queue, running, job, results, runResult>>

\* mutant: the future is inserted at the front of the vector
RunTest_pushFront ==
    /\ pc = "submit"
    /\ Len(futures) < Len(rev_deps)
    /\ LET j == Len(futures) + 1
           rev_dep == rev_deps[j]
       IN /\ chan' = [chan EXCEPT ![j] = [tx |-> "alive", buf |-> <<>>]]
          /\ job' = [job EXCEPT ![j] = NewJob(rev_dep, crates.base, crates.next)]
          /\ queue' = Append(queue, j)
          /\ futures' = <<[rev_dep |-> rev_dep, rx |-> j]>> \o futures
    /\ UNCHANGED <<pc, config, rev_deps, crates, pool, running, results, runResult>>

\* one pass of the for loop: run_test + results.push
RunTest ==
    /\ pc = "submit"
    /\ Len(futures) < Len(rev_deps)
    /\ LET j == Len(futures) + 1
           rev_dep == rev_deps[j]
       IN /\ chan' = [chan EXCEPT ![j] = [tx |-> "alive", buf |-> <<>>]]
          /\ job' = [job EXCEPT ![j] = NewJob(rev_dep, crates.base, crates.next)]
          /\ queue' = Append(queue, j)
          /\ futures' = Append(futures, [rev_dep |-> rev_dep, rx |-> j])
    /\ UNCHANGED <<pc, config, rev_deps, crates, pool, running, results, runResult>>

\* the for loop ends
SubmitDone ==
    /\ pc = "submit"
    /\ Len(futures) = Len(rev_deps)
    /\ pc' = "collect"
    /\ UNCHANGED <<config, rev_deps, crates, pool, futures, chan, queue, running, job, results, runResult>>

\* mutant: the verdict made for a dropped sender loses the name of the future
TestResultFuture_take_noName(fut) ==
    IF chan[fut.rx].buf # <<>> THEN chan[fut.rx].buf[1]
    ELSE TestResult_error(RevDep("", SentinelVersion), "RecvError")

\* TestResultFuture::take: rx.recv() blocks until a value is buffered or the sender is gone
TestResultFuture_take(fut) ==
    IF chan[fut.rx].buf # <<>> THEN chan[fut.rx].buf[1]
    ELSE TestResult_error(RevDep(fut.rev_dep, SentinelVersion), "RecvError")

\* mutant: recv gives up on a sender that is alive and has sent nothing
Receivable_timeout(fut) == TRUE

\* rx.recv() returns: a value is buffered, or the sender was dropped
Receivable(fut) == chan[fut.rx].buf # <<>> \/ chan[fut.rx].tx = "dropped"

\* mutant: each handle is taken inside the submission loop
Take_eager ==
    /\ pc \in {"submit", "collect"}
    /\ Len(results) < Len(futures)
    /\ LET fut == futures[Len(results) + 1]
       IN /\ Receivable(fut)
          /\ results' = Append(results, TestResultFuture_take(fut))
          /\ chan' = [chan EXCEPT ![fut.rx].buf = <<>>]
    /\ UNCHANGED <<pc, config, rev_deps, crates, pool, futures, queue, running, job, runResult>>

\* lines 42-43: the next handle in push order is taken
Take ==
    /\ pc = "collect"
    /\ Len(results) < Len(futures)
    /\ LET fut == futures[Len(results) + 1]
       IN /\ Receivable(fut)
          /\ results' = Append(results, TestResultFuture_take(fut))
          /\ chan' = [chan EXCEPT ![fut.rx].buf = <<>>]
    /\ UNCHANGED <<pc, config, rev_deps, crates, pool, futures, queue, running, job, runResult>>

\* mutant: the run fails only when every verdict failed
AnyFailed_all(rs) == \A i \in 1..Len(rs) : TestResult_failed(rs[i])

\* line 44: results.iter().any(|r| r.failed())
AnyFailed(rs) == \E i \in 1..Len(rs) : TestResult_failed(rs[i])

\* mutant: TestFailure carries only the verdicts that failed
RunResult_onlyFailed(rs) ==
    IF AnyFailed(rs)
    THEN [ok |-> FALSE, err |-> "TestFailure", results |-> SelectSeq(rs, TestResult_failed)]
    ELSE [ok |-> TRUE, err |-> None, results |-> rs]

\* mutant: the verdicts that are Error are filtered out of what run() returns
RunResult_dropErrors(rs) ==
    LET kept == SelectSeq(rs, LAMBDA r : r.data.kind # "Error")
    IN IF AnyFailed(kept) THEN [ok |-> FALSE, err |-> "TestFailure", results |-> kept]
       ELSE [ok |-> TRUE, err |-> None, results |-> kept]

RunResult(rs) ==
    IF AnyFailed(rs) THEN [ok |-> FALSE, err |-> "TestFailure", results |-> rs]
    ELSE [ok |-> TRUE, err |-> None, results |-> rs]

Finish ==
    /\ pc = "collect"
    /\ Len(results) = Len(futures)
    /\ runResult' = RunResult(results)
    /\ pc' = "done"
    /\ UNCHANGED <<config, rev_deps, crates, pool, futures, chan, queue, running, job, results>>

\* ---- the pool ----
\* mutant: every queued job gets a thread of its own at once
StartJob_unbounded ==
    /\ queue # <<>>
    /\ LET j == Head(queue)
       IN /\ running' = running \cup {j}
          /\ job' = [job EXCEPT ![j].pc = "resolve"]
    /\ queue' = Tail(queue)
    /\ UNCHANGED <<pc, config, rev_deps, crates, pool, futures, chan, results, runResult>>

\* a free worker takes the oldest queued job and enters run_test_local
StartJob ==
    /\ queue # <<>>
    /\ Cardinality(running) < pool
    /\ LET j == Head(queue)
       IN /\ running' = running \cup {j}
          /\ job' = [job EXCEPT ![j].pc = "resolve"]
    /\ queue' = Tail(queue)
    /\ UNCHANGED <<pc, config, rev_deps, crates, pool, futures, chan, results, runResult>>

\* one entry of a job's log of calls to the registry and to the build
Call(call, krate, outcome) == [call |-> call, krate |-> krate, outcome |-> outcome]

\* mutant: a worker whose job panicked is lost to the pool
Respawn_lost(j) == running

\* the pool replaces a worker whose job panicked: its slot is free again
Respawn(j) == running \ {j}

\* the closure unwinds: result_tx is dropped unsent, the pool replaces the worker
Panicked(j, call) ==
    /\ job' = [job EXCEPT ![j].pc = "panicked", ![j].calls = Append(@, call)]
    /\ chan' = [chan EXCEPT ![j].tx = "dropped"]
    /\ running' = Respawn(j)

\* semver ordering of two versions
VersionLess(a, b) ==
    \/ a[1] < b[1]
    \/ a[1] = b[1] /\ a[2] < b[2]
    \/ a[1] = b[1] /\ a[2] = b[2] /\ a[3] < b[3]

\* the current version of a crate: the greatest one the registry lists
Latest(versions) ==
    CHOOSE v \in {versions[i] : i \in 1..Len(versions)} :
        \A i \in 1..Len(versions) : ~VersionLess(v, versions[i])

\* what resolve_rev_dep_version is declared to return for a good registry answer
resolve_rev_dep_version(name) == RevDep(name, Latest(RegistryVersions(name)))

\* what compile_with_custom_dep is declared to return: the result of building
\* against krate, success being the build's own outcome
compile_with_custom_dep(krate, success) == CompileResult(krate, success)

\* ---- the closure of run_test (lines 287-290) around run_test_local (295-318) ----
\* mutant: a rendezvous channel, send waits until the orchestrator receives from it
CanSend_rendezvous(j) == pc = "collect" /\ Len(results) + 1 = j

\* mpsc::channel() is asynchronous and unbounded: send never waits for the receiver
CanSend(j) == TRUE

\* mutant: one channel for the whole run, every job sends into it
Sent_shared(j, res) == [chan EXCEPT ![1] = [tx |-> "dropped", buf |-> <<res>>]]

\* run_test_local returned res: result_tx.send(res), the closure ends, result_tx is dropped
Sent(j, res) == [chan EXCEPT ![j] = [tx |-> "dropped", buf |-> <<res>>]]

\* resolve_rev_dep_version returns Err: http_get_to_string or parse_crate failed
ResolveErr(j) ==
    /\ job[j].pc = "resolve"
    /\ \E e \in ResolveErrors :
         LET res == TestResult_error(RevDep(job[j].name, SentinelVersion), e)
         IN /\ CanSend(j)
            /\ job' = [job EXCEPT ![j].pc = "done", ![j].resp = e,
                                  ![j].calls = Append(@, Call("resolve", <<>>, e)),
                                  ![j].res = res]
            /\ chan' = Sent(j, res)
    /\ running' = running \ {j}
    /\ UNCHANGED <<pc, config, rev_deps, crates, pool, futures, queue, results, runResult>>

\* the registry answered 200 with a decodable body: the source prints krate and
\* reaches unimplemented!()
ResolveUnimplemented(j) ==
    /\ job[j].pc = "resolve"
    /\ job' = [job EXCEPT ![j].pc = "panicked", ![j].resp = "ok",
                          ![j].calls = Append(@, Call("resolve", <<>>, "panic"))]
    /\ chan' = [chan EXCEPT ![j].tx = "dropped"]
    /\ running' = Respawn(j)
    /\ UNCHANGED <<pc, config, rev_deps, crates, pool, futures, queue, results, runResult>>

\* lines 296-297: resolve_rev_dep_version returned Ok(r)
ResolveOk(j) ==
    /\ job[j].pc = "resolve"
    /\ job' = [job EXCEPT ![j].pc = "base", ![j].resp = "ok",
                          ![j].calls = Append(@, Call("resolve", <<>>, "ok")),
                          ![j].rev_dep = resolve_rev_dep_version(job[j].name)]
    /\ UNCHANGED <<pc, config, rev_deps, crates, pool, futures, chan, queue, running, results, runResult>>

\* mutant: a failed base build does not end the job
BuildBase_noShortCircuit(j) ==
    /\ job[j].pc = "base"
    /\ \E success \in BOOLEAN :
         job' = [job EXCEPT ![j].calls = Append(@, Call("build", job[j].base_crate,
                                                IF success THEN "ok" ELSE "failed")),
                            ![j].base_result = compile_with_custom_dep(job[j].base_crate, success),
                            ![j].pc = "next"]
    /\ UNCHANGED <<pc, config, rev_deps, crates, pool, futures, chan, queue, running, results, runResult>>

\* lines 306-310: the base build returns; a failed one ends the job as Broken
BuildBase(j) ==
    /\ job[j].pc = "base"
    /\ \E success \in BOOLEAN :
         LET base_result == compile_with_custom_dep(job[j].base_crate, success)
             res == TestResult_broken(job[j].rev_dep, base_result)
             called == [job EXCEPT ![j].calls = Append(@, Call("build", job[j].base_crate,
                                                IF success THEN "ok" ELSE "failed")),
                                   ![j].base_result = base_result]
         IN IF CompileResult_failed(base_result)
            THEN /\ CanSend(j)
                 /\ job' = [called EXCEPT ![j].pc = "done", ![j].res = res]
                 /\ chan' = Sent(j, res)
                 /\ running' = running \ {j}
            ELSE /\ job' = [called EXCEPT ![j].pc = "next"]
                 /\ UNCHANGED <<chan, running>>
    /\ UNCHANGED <<pc, config, rev_deps, crates, pool, futures, queue, results, runResult>>

\* mutant: the test of next_result.failed() is inverted
BuildNext_inverted(j) ==
    /\ job[j].pc = "next"
    /\ \E success \in BOOLEAN :
         LET next_result == compile_with_custom_dep(job[j].next_crate, success)
             res == IF ~CompileResult_failed(next_result)
                    THEN TestResult_fail(job[j].rev_dep, job[j].base_result, next_result)
                    ELSE TestResult_pass(job[j].rev_dep, job[j].base_result, next_result)
         IN /\ CanSend(j)
            /\ job' = [job EXCEPT ![j].calls = Append(@, Call("build", job[j].next_crate,
                                                IF success THEN "ok" ELSE "failed")),
                                  ![j].pc = "done", ![j].res = res]
            /\ chan' = Sent(j, res)
    /\ running' = running \ {j}
    /\ UNCHANGED <<pc, config, rev_deps, crates, pool, futures, queue, results, runResult>>

\* mutant: the second build is made against the base origin again
BuildNext_baseCrate(j) ==
    /\ job[j].pc = "next"
    /\ \E success \in BOOLEAN :
         LET next_result == compile_with_custom_dep(job[j].base_crate, success)
             res == IF CompileResult_failed(next_result)
                    THEN TestResult_fail(job[j].rev_dep, job[j].base_result, next_result)
                    ELSE TestResult_pass(job[j].rev_dep, job[j].base_result, next_result)
         IN /\ CanSend(j)
            /\ job' = [job EXCEPT ![j].calls = Append(@, Call("build", job[j].base_crate,
                                                IF success THEN "ok" ELSE "failed")),
                                  ![j].pc = "done", ![j].res = res]
            /\ chan' = Sent(j, res)
    /\ running' = running \ {j}
    /\ UNCHANGED <<pc, config, rev_deps, crates, pool, futures, queue, results, runResult>>

\* lines 311-317: the next build returns; the job ends as Fail or Pass
BuildNext(j) ==
    /\ job[j].pc = "next"
    /\ \E success \in BOOLEAN :
         LET next_result == compile_with_custom_dep(job[j].next_crate, success)
             res == IF CompileResult_failed(next_result)
                    THEN TestResult_fail(job[j].rev_dep, job[j].base_result, next_result)
                    ELSE TestResult_pass(job[j].rev_dep, job[j].base_result, next_result)
         IN /\ CanSend(j)
            /\ job' = [job EXCEPT ![j].calls = Append(@, Call("build", job[j].next_crate,
                                                IF success THEN "ok" ELSE "failed")),
                                  ![j].pc = "done", ![j].res = res]
            /\ chan' = Sent(j, res)
    /\ running' = running \ {j}
    /\ UNCHANGED <<pc, config, rev_deps, crates, pool, futures, queue, results, runResult>>

\* compile_with_custom_dep does not return: unimplemented!() in the source, a
\* fault of the build machinery in general
CompilePanic(j) ==
    /\ job[j].pc \in {"base", "next"}
    /\ Panicked(j, Call("build", IF job[j].pc = "base" THEN job[j].base_crate
                                  ELSE job[j].next_crate, "panic"))
    /\ UNCHANGED <<pc, config, rev_deps, crates, pool, futures, queue, results, runResult>>

Next ==
    \/ GetConfigOk
    \/ GetConfigErr
    \/ GetRevDepsOk
    \/ GetRevDepsErr
    \/ AcquireCrates
    \/ NewPool
    \/ RunTest
    \/ SubmitDone
    \/ Take
    \/ Finish
    \/ StartJob
    \/ \E j \in Jobs : ResolveErr(j)
    \/ \E j \in Jobs : ResolveUnimplemented(j)
    \/ \E j \in Jobs : ResolveOk(j)
    \/ \E j \in Jobs : BuildBase(j)
    \/ \E j \in Jobs : BuildNext(j)
    \/ \E j \in Jobs : CompilePanic(j)

Spec == Init /\ [][Next]_vars

\* ---- the parts of Next ----
\* a step of run(), the orchestrator
Orchestrator ==
    \/ GetConfigOk
    \/ GetConfigErr
    \/ GetRevDepsOk
    \/ GetRevDepsErr
    \/ AcquireCrates
    \/ NewPool
    \/ RunTest
    \/ SubmitDone
    \/ Take
    \/ Finish

\* a call of job j returns and the job goes on to its next stage
JobAdvance(j) ==
    \/ ResolveOk(j)
    \/ BuildBase(j) /\ job'[j].pc = "next"

\* job j ends: it sends its verdict, or its worker panics
JobEnd(j) ==
    \/ ResolveErr(j)
    \/ ResolveUnimplemented(j)
    \/ BuildBase(j) /\ job'[j].pc = "done"
    \/ BuildNext(j)
    \/ CompilePanic(j)

JobStep(j) == JobAdvance(j) \/ JobEnd(j)

Ended(j) == job[j].pc \in {"done", "panicked"}

Executing == {j \in Jobs : job[j].pc \in {"resolve", "base", "next"}}

\* the job whose handle the orchestrator receives from next, 0 when there is none
Awaited == IF pc = "collect" /\ Len(results) < Len(futures) THEN Len(results) + 1 ELSE 0

\* ---- a run in which one job's external call never returns ----
\* the job whose call hangs: the second one submitted, so that a receive before
\* it completes and a job after it is left to run
IsStuck(j) == j = 2

\* the steps that do not depend on the hanging call
Progress ==
    \/ Orchestrator
    \/ StartJob
    \/ \E j \in {k \in Jobs : ~IsStuck(k)} : JobStep(j)

\* the stuck job may get answers from earlier calls, it never ends
NextStuck ==
    \/ Progress
    \/ \E j \in {k \in Jobs : IsStuck(k)} : JobAdvance(j)

\* threads are scheduled fairly and every call but the hanging one returns
StuckSpec == Init /\ [][NextStuck]_vars /\ WF_vars(Progress)

\* every submitted job but the stuck one has ended
OthersEnded ==
    /\ pc \in {"collect", "done"}
    /\ \A k \in 1..Len(futures) : ~IsStuck(k) => Ended(k)

\* ---- a run in which every call returns or panics ----
\* the orchestrator's thread and the pool's workers are scheduled fairly, and a
\* job that is executing eventually gets an answer from the call it is in
FairSpec ==
    /\ Spec
    /\ WF_vars(Orchestrator)
    /\ WF_vars(StartJob)
    /\ \A j \in Jobs : WF_vars(JobStep(j))

\* run() returned from its last lines, 42-50
Collected == pc = "done" /\ runResult.err \in {None, "TestFailure"}

\* what take() must produce for job i once the job has ended
SyntheticError(i) == TestResult_error(RevDep(rev_deps[i], SentinelVersion), "RecvError")

Kinds(rs) == {rs[i].data.kind : i \in 1..Len(rs)}

\* C1 (totality): a run that finished collection took every future once and its
\* report has exactly one verdict per name discovery returned, duplicates and
\* faulted jobs included.
C1_Totality ==
    Collected =>
        /\ Len(futures) = Len(rev_deps)
        /\ Len(results) = Len(rev_deps)
        /\ Len(runResult.results) = Len(rev_deps)

C1_Witness ==
    /\ Collected
    /\ Len(rev_deps) >= 3
    /\ rev_deps[1] = rev_deps[3]
    /\ job[1].pc = "panicked"
    /\ job[2].resp \in RegistryErrors
    /\ job[3].pc = "done"
    /\ Len(runResult.results) = 3

\* C2 (order preservation): the i-th collected verdict is the verdict of the i-th
\* submitted job and carries the i-th name, whatever order the jobs ended in.
C2_OrderPreserved ==
    /\ \A i \in 1..Len(results) :
         /\ results[i].rev_dep.name = rev_deps[i]
         /\ job[i].pc = "done" => results[i] = job[i].res
         /\ job[i].pc # "done" => results[i] = SyntheticError(i)
    /\ Collected => runResult.results = results

\* the first verdict is collected and run() waits for the second job, which is
\* still running, while the third job has already sent its verdict
C2_Witness ==
    /\ pc = "collect"
    /\ Len(futures) >= 3
    /\ rev_deps[1] # rev_deps[2]
    /\ Len(results) = 1
    /\ results[1].data.err = "HttpError"
    /\ job[2].pc = "resolve"
    /\ job[3].pc = "done"
    /\ chan[3].buf = <<job[3].res>>

\* C3 (aggregate correctness): run() fails exactly when some collected verdict is
\* Fail; Broken, Error and Pass verdicts alone leave it successful.
C3_Aggregate ==
    Collected =>
        /\ ~runResult.ok <=> "Fail" \in Kinds(results)
        /\ Kinds(results) \subseteq {"Broken", "Error", "Pass"} => runResult.ok

C3_Witness ==
    /\ Collected
    /\ {"Broken", "Error"} \subseteq Kinds(results)
    /\ "Fail" \notin Kinds(results)
    /\ runResult.ok

\* C4 (fault containment): a job whose closure unwound before sending is reported
\* as Error(RecvError) under its own name with version 0.0.0, run() still returns
\* the whole report, and every job that did send has its own verdict reported.
C4_FaultContained ==
    /\ \A i \in 1..Len(results) :
         job[i].pc = "panicked" =>
            /\ results[i] = TestResult_error(RevDep(job[i].name, SentinelVersion), "RecvError")
            /\ \A k \in 1..Len(results) : job[k].pc = "done" => results[k] = job[k].res
    /\ (pc = "done" /\ \E i \in 1..Len(futures) : job[i].pc = "panicked") =>
            /\ Collected
            /\ Len(runResult.results) = Len(rev_deps)

C4_Witness ==
    /\ Collected
    /\ Len(rev_deps) >= 3
    /\ job[2].pc = "panicked"
    /\ results[2].data.err = "RecvError"
    /\ results[1].data.err = "HttpError"
    /\ results[3].data.err = "JsonDecode"

\* the outcome of the k-th call of job j, None when the job made fewer calls
Outcome(j, k) == IF Len(job[j].calls) >= k THEN job[j].calls[k].outcome ELSE None

\* C5 (verdict classification): a job that returned has exactly one verdict, and
\* its kind and payload follow from the outcomes of its calls: Error when resolve
\* failed, Broken with the base outcome alone when the base build failed, Fail or
\* Pass with the base and the next outcome when the base build succeeded.
C5_Classification ==
    \A j \in 1..Len(futures) :
        job[j].pc = "done" =>
            LET res == job[j].res
                base_ok == CompileResult(crates.base, TRUE)
            IN /\ res.data.kind \in {"Error", "Broken", "Fail", "Pass"}
               /\ Outcome(j, 1) \in RegistryErrors <=> res.data.kind = "Error"
               /\ (Outcome(j, 1) = "ok" /\ Outcome(j, 2) = "failed") <=> res.data.kind = "Broken"
               /\ (Outcome(j, 2) = "ok" /\ Outcome(j, 3) = "failed") <=> res.data.kind = "Fail"
               /\ (Outcome(j, 2) = "ok" /\ Outcome(j, 3) = "ok") <=> res.data.kind = "Pass"
               /\ res.data.kind = "Broken" =>
                     /\ res.data.r1 = CompileResult(crates.base, FALSE)
                     /\ res.data.r2 = NoCompileResult
               /\ res.data.kind = "Fail" =>
                     /\ res.data.r1 = base_ok
                     /\ res.data.r2 = CompileResult(crates.next, FALSE)
               /\ res.data.kind = "Pass" =>
                     /\ res.data.r1 = base_ok
                     /\ res.data.r2 = CompileResult(crates.next, TRUE)
               /\ chan[j].buf # <<>> => chan[j].buf = <<res>>

C5_Witness ==
    /\ Len(futures) >= 3
    /\ \A j \in 1..3 : job[j].pc = "done"
    /\ job[1].res.data.kind = "Broken"
    /\ job[2].res.data.kind = "Fail"
    /\ job[3].res.data.kind = "Pass"

\* C6 (short-circuit): a job whose resolve failed makes no build call, and a job
\* whose base build failed makes no call with the next crate.
C6_ShortCircuit ==
    \A j \in 1..Len(futures) :
        LET calls == job[j].calls
        IN /\ Outcome(j, 1) \in RegistryErrors =>
                 \A k \in 1..Len(calls) : calls[k].call # "build"
           /\ (\E k \in 1..Len(calls) :
                 /\ calls[k].call = "build"
                 /\ calls[k].krate = crates.base
                 /\ calls[k].outcome = "failed") =>
                 \A k \in 1..Len(calls) : calls[k].krate # crates.next

C6_Witness ==
    /\ Collected
    /\ \E j \in 1..Len(futures) : job[j].res.data.kind = "Broken"
                                  /\ Len(job[j].calls) = 2
    /\ \E j \in 1..Len(futures) : job[j].resp \in RegistryErrors /\ Len(job[j].calls) = 1
    /\ \E j \in 1..Len(futures) : Len(job[j].calls) = 3

\* C7 (terminal result): once discovery succeeded, run() returns every collected
\* verdict in submission order: inside Err(TestFailure) when one of them is Fail,
\* inside Ok otherwise, and it returns no other error.
C7_TerminalResult ==
    (pc = "done" /\ crates # NoCrates) =>
        /\ runResult.results = results
        /\ Len(runResult.results) = Len(rev_deps)
        /\ \A i \in 1..Len(rev_deps) : runResult.results[i].rev_dep.name = rev_deps[i]
        /\ IF \E i \in 1..Len(results) : results[i].data.kind = "Fail"
           THEN ~runResult.ok /\ runResult.err = "TestFailure"
           ELSE runResult.ok /\ runResult.err = None

C7_Witness ==
    /\ pc = "done"
    /\ runResult.err = "TestFailure"
    /\ Len(runResult.results) >= 3
    /\ {"Fail", "Pass", "Error"} \subseteq Kinds(runResult.results)

\* C8 (resolution failure contained): a dependent whose resolve failed is reported
\* as Error with its own name, version 0.0.0 and the error of the registry call;
\* collection still covers every dependent, and run() is successful unless a
\* dependent that did resolve is reported as Fail.
C8_ResolveErrorContained ==
    /\ \A i \in 1..Len(results) :
         job[i].resp \in RegistryErrors =>
            results[i] = TestResult_error(RevDep(rev_deps[i], SentinelVersion), job[i].resp)
    /\ (pc = "done" /\ \E i \in 1..Len(futures) : job[i].resp \in RegistryErrors) =>
         /\ Collected
         /\ Len(runResult.results) = Len(rev_deps)
         /\ (\A i \in 1..Len(futures) :
                job[i].resp \notin RegistryErrors => results[i].data.kind # "Fail")
              => runResult.ok

C8_Witness ==
    /\ Collected
    /\ Len(rev_deps) >= 2
    /\ job[1].resp = "HttpError"
    /\ results[1].data.err = "HttpError"
    /\ job[2].pc = "panicked"
    /\ results[2].data.err = "RecvError"
    /\ runResult.ok

\* no channel, no future, no queued or started job, no call, no verdict
NothingSubmitted ==
    /\ futures = <<>>
    /\ queue = <<>>
    /\ running = {}
    /\ results = <<>>
    /\ \A j \in Jobs : job[j] = NoJob /\ chan[j].tx = "none"

\* C9 (whole-batch faults): when get_config or get_rev_deps fails, run() returns
\* that error with nothing submitted to the pool and no resolve or build call made.
C9_BatchAbort ==
    /\ runResult.err \in ConfigErrors =>
          pc = "done" /\ config = NoConfig /\ rev_deps = <<>> /\ NothingSubmitted
    /\ runResult.err \in RegistryErrors =>
          pc = "done" /\ crates = NoCrates /\ rev_deps = <<>> /\ NothingSubmitted
    /\ pc \in {"get_config", "get_rev_deps", "acquire_crates", "new_pool"} => NothingSubmitted

C9_Witness ==
    /\ pc = "done"
    /\ runResult.err = "JsonDecode"
    /\ config # NoConfig
    /\ NothingSubmitted

\* C10 (resolver contract): a job whose registry call answered 200 with a
\* decodable body gets Ok(RevDep) with its own name and the crate's current
\* version from resolve_rev_dep_version, and goes on to the base build.
C10_ResolveContract ==
    \A j \in 1..Len(futures) :
        job[j].resp = "ok" =>
            /\ job[j].rev_dep = RevDep(job[j].name, Latest(RegistryVersions(job[j].name)))
            /\ Len(job[j].calls) = 1 => job[j].pc = "base"

\* every job of the run resolved its dependent and got an answer from every build
\* it started
AllResolvedAndBuilt ==
    \A j \in 1..Len(rev_deps) :
        /\ job[j].pc = "done"
        /\ Outcome(j, 1) = "ok"
        /\ Outcome(j, 2) \in {"ok", "failed"}
        /\ Outcome(j, 2) = "ok" => Outcome(j, 3) \in {"ok", "failed"}

\* C11 (end-to-end regression detection): in a finished run where every dependent
\* resolved and every build call returned, the report gives a dependent Pass when
\* both its builds succeeded and Fail when its base build succeeded and its next
\* build failed, and the run fails exactly when some dependent's base build
\* succeeded and its next build failed.
C11_RegressionDetection ==
    (Collected /\ AllResolvedAndBuilt) =>
        /\ \A i \in 1..Len(rev_deps) :
              /\ runResult.results[i].rev_dep.name = rev_deps[i]
              /\ (Outcome(i, 2) = "ok" /\ Outcome(i, 3) = "ok") =>
                    runResult.results[i].data.kind = "Pass"
              /\ (Outcome(i, 2) = "ok" /\ Outcome(i, 3) = "failed") =>
                    runResult.results[i].data.kind = "Fail"
        /\ ~runResult.ok <=>
              \E i \in 1..Len(rev_deps) : Outcome(i, 2) = "ok" /\ Outcome(i, 3) = "failed"

C11_Witness ==
    /\ Collected
    /\ AllResolvedAndBuilt
    /\ Len(rev_deps) = 2
    /\ rev_deps[1] # rev_deps[2]
    /\ Outcome(1, 2) = "ok" /\ Outcome(1, 3) = "ok"
    /\ Outcome(2, 2) = "ok" /\ Outcome(2, 3) = "failed"
    /\ runResult.results[1].data.kind = "Pass"
    /\ runResult.results[2].data.kind = "Fail"
    /\ runResult.err = "TestFailure"

\* C12 (bounded pool): at most N jobs execute at the same time, N being the
\* number of workers the pool was created with; N never changes afterwards, a
\* panicked job included, and a queued job starts only when fewer than N jobs
\* are executing, oldest first.
C12_BoundedPool ==
    /\ [](Cardinality(running) <= pool /\ running = Executing)
    /\ [][/\ pool # 0 => pool' = pool
          /\ \A j \in Jobs :
                (job[j].pc = "queued" /\ job'[j].pc # "queued") =>
                    /\ Cardinality(running) < pool
                    /\ queue # <<>> /\ j = Head(queue)
                    /\ job'[j].pc = "resolve"]_vars

C12_Witness ==
    /\ \E j \in Jobs : job[j].pc = "panicked"
    /\ Len(futures) > pool
    /\ Cardinality(running) = pool
    /\ pool = PoolSize
    /\ job[Len(futures)].pc \in {"resolve", "base", "next"}

\* C13 (submission precedes collection): every name has been submitted before
\* the first receive; submitting is always possible while names remain,
\* whatever the pool is doing; each receive takes the handle that follows the
\* last one taken, one at a time; and the orchestrator can be unable to step
\* only inside a receive whose job has not ended.
C13_SubmitThenCollect ==
    /\ []( /\ (pc = "collect" \/ results # <<>>) => Len(futures) = Len(rev_deps)
           /\ (pc = "submit" /\ Len(futures) < Len(rev_deps)) => ENABLED RunTest
           /\ (pc # "done" /\ ~ENABLED Orchestrator) =>
                 Awaited # 0 /\ ~Ended(Awaited) )
    /\ [][results' # results =>
             /\ pc = "collect"
             /\ Len(results') = Len(results) + 1
             /\ SubSeq(results', 1, Len(results)) = results
             /\ results'[Len(results')] = TestResultFuture_take(futures[Len(results')])
             /\ futures[Len(results')].rev_dep = rev_deps[Len(results')]]_vars

C13_Witness ==
    /\ pc = "collect"
    /\ Len(futures) >= 3
    /\ Len(results) = 1
    /\ ~ENABLED Orchestrator
    /\ job[2].pc = "resolve"
    /\ job[3].pc = "queued"
    /\ pool > 1

\* C14 (one-shot handoff): every job has a channel of its own; a job that
\* returned sent exactly one verdict, which is buffered in its channel or has
\* been delivered under its own handle; a job that panicked sent none; a send
\* happens once, on a live and empty channel, and closes it; each handle is
\* received from once, in turn; no verdict is delivered under another job's handle.
C14_OneShot ==
    /\ [](\A j \in 1..Len(futures) :
            /\ futures[j].rx = j
            /\ \A i \in 1..Len(futures) : i # j => futures[i].rx # futures[j].rx
            /\ Len(chan[j].buf) <= 1
            /\ job[j].pc = "done" =>
                  /\ chan[j].tx = "dropped"
                  /\ job[j].res # NoTestResult
                  /\ IF j <= Len(results)
                     THEN chan[j].buf = <<>> /\ results[j] = job[j].res
                     ELSE chan[j].buf = <<job[j].res>>
            /\ job[j].pc = "panicked" =>
                  /\ chan[j].tx = "dropped"
                  /\ chan[j].buf = <<>>
                  /\ job[j].res = NoTestResult
            /\ ~Ended(j) =>
                  /\ chan[j].tx = "alive"
                  /\ chan[j].buf = <<>>
                  /\ j > Len(results))
    /\ [][\A j \in Jobs :
            /\ (chan'[j].buf # chan[j].buf /\ chan'[j].buf # <<>>) =>
                  /\ chan[j].tx = "alive" /\ chan[j].buf = <<>>
                  /\ ~Ended(j) /\ job'[j].pc = "done"
                  /\ chan'[j] = [tx |-> "dropped", buf |-> <<job'[j].res>>]
            /\ (chan'[j].buf # chan[j].buf /\ chan'[j].buf = <<>>) =>
                  /\ j = Len(results) + 1
                  /\ results' = Append(results, chan[j].buf[1])]_vars

C14_Witness ==
    /\ pc = "collect"
    /\ Len(futures) >= 3
    /\ Len(results) = 2
    /\ job[1].pc = "done" /\ results[1] = job[1].res /\ chan[1].buf = <<>>
    /\ job[2].pc = "panicked" /\ results[2].data.err = "RecvError"
    /\ job[3].pc = "done" /\ chan[3].buf = <<job[3].res>>
    /\ job[3].res # job[1].res

\* an executing job whose call returns a verdict-making answer can send the
\* verdict at once, wherever the orchestrator is
SendsUnhindered(k) ==
    /\ job[k].pc = "resolve" => ENABLED ResolveErr(k)
    /\ job[k].pc = "base" => ENABLED (BuildBase(k) /\ job'[k].pc = "done")
    /\ job[k].pc = "next" => ENABLED BuildNext(k)

\* C15 as stated (a stuck job delays only its own collection): in a run where
\* one job's call never returns, every other submitted job still runs and ends.
C15_StuckDelaysOnlyItself == <>OthersEnded

\* C15 amended: the same, provided the pool was created with at least two
\* workers; the other jobs then end, their verdicts sent without waiting for
\* the orchestrator, which stays blocked in the receive for the stuck job.
C15_StuckDelaysOnlyItself_TwoWorkers ==
    /\ [](\A k \in running : SendsUnhindered(k))
    /\ (pool > 1) ~>
          /\ OthersEnded
          /\ \A k \in 1..Len(futures) :
                /\ job[k].pc = "done" => chan[k].tx = "dropped"
                /\ (job[k].pc = "done" /\ k > Len(results)) => chan[k].buf = <<job[k].res>>
                /\ IsStuck(k) => Awaited = k

C15_Witness ==
    /\ pool > 1
    /\ Len(futures) >= 3
    /\ Awaited # 0 /\ IsStuck(Awaited)
    /\ Awaited \in running
    /\ OthersEnded
    /\ job[3].pc = "done" /\ chan[3].buf = <<job[3].res>>

\* the stage changes a job can go through
JobTransitions ==
    {<<"none", "queued">>, <<"queued", "resolve">>,
     <<"resolve", "base">>, <<"resolve", "done">>, <<"resolve", "panicked">>,
     <<"base", "next">>, <<"base", "done">>, <<"base", "panicked">>,
     <<"next", "done">>, <<"next", "panicked">>}

\* C16 (no cancellation, no timeout): a started job keeps its worker and moves
\* only along its own stages until it is done or has panicked, and then stays
\* so; as long as a job has not ended, the receive for it does not complete,
\* nothing after it is collected and run() does not return a report.
C16_NoCancelNoTimeout ==
    /\ [](\A j \in 1..Len(futures) :
            ~Ended(j) => Len(results) < j /\ pc # "done" /\ runResult = NoRunResult)
    /\ [][\A j \in Jobs :
            /\ job'[j].pc # job[j].pc => <<job[j].pc, job'[j].pc>> \in JobTransitions
            /\ Ended(j) => job'[j] = job[j]
            /\ (j \in running /\ job'[j].pc \notin {"done", "panicked"}) => j \in running'
            /\ (~Ended(j) /\ j <= Len(futures)) =>
                  Len(results') < j /\ runResult' = NoRunResult]_vars

C16_Witness ==
    /\ pc = "collect"
    /\ Len(futures) >= 3
    /\ results = <<>>
    /\ job[1].pc = "next"
    /\ job[2].pc = "done" /\ chan[2].buf # <<>>
    /\ job[3].pc = "panicked"
    /\ ~ENABLED Orchestrator

\* C17 (linear protocol, no retries): a job's calls are, in this order, one
\* resolve, one build against the run's base origin and one build against the
\* run's next origin; a call is made only after the one before it succeeded,
\* none is made twice, and a job that ended made no call after the one that
\* ended it.
C17_LinearProtocol ==
    \A j \in 1..Len(futures) :
        LET c == job[j].calls
        IN /\ Len(c) <= 3
           /\ Len(c) >= 1 => c[1].call = "resolve"
           /\ Len(c) >= 2 =>
                 /\ c[1].outcome = "ok"
                 /\ c[2] = Call("build", crates.base, c[2].outcome)
           /\ Len(c) >= 3 =>
                 /\ c[2].outcome = "ok"
                 /\ c[3] = Call("build", crates.next, c[3].outcome)
           /\ job[j].pc \in {"queued", "resolve"} => Len(c) = 0
           /\ job[j].pc = "base" => Len(c) = 1
           /\ job[j].pc = "next" => Len(c) = 2
           /\ Ended(j) => Len(c) >= 1 /\ (Len(c) < 3 => c[Len(c)].outcome # "ok")

C17_Witness ==
    /\ Len(futures) >= 2
    /\ crates.base # crates.next
    /\ job[1].pc = "done"
    /\ Len(job[1].calls) = 3
    /\ job[1].calls[2].krate = crates.base
    /\ job[1].calls[3].krate = crates.next
    /\ job[2].pc = "done"
    /\ Len(job[2].calls) = 2
    /\ job[2].calls[2].outcome = "failed"

\* the verdict of run_test_local as a function of the dependent's name and of
\* the log of its own calls
Verdict(name, calls) ==
    LET o(k) == IF Len(calls) >= k THEN calls[k].outcome ELSE None
        rev_dep == resolve_rev_dep_version(name)
    IN IF o(1) # "ok" THEN TestResult_error(RevDep(name, SentinelVersion), o(1))
       ELSE IF o(2) = "failed"
            THEN TestResult_broken(rev_dep, CompileResult(calls[2].krate, FALSE))
       ELSE IF o(3) = "failed"
            THEN TestResult_fail(rev_dep, CompileResult(calls[2].krate, TRUE),
                                 CompileResult(calls[3].krate, FALSE))
       ELSE TestResult_pass(rev_dep, CompileResult(calls[2].krate, TRUE),
                            CompileResult(calls[3].krate, TRUE))

\* C18 (job isolation, read-only origins): the two origins are fixed before the
\* first job is submitted and never change afterwards; every job holds the same
\* two origins, those of the run; a step that changes one job leaves every other
\* job and every other channel as they are, and a step of a started job leaves
\* the orchestrator's data as it is; the verdict of a job that returned is a
\* function of its own name and of the outcomes of its own calls.
C18_Isolation ==
    /\ [](\A j \in 1..Len(futures) :
            /\ crates # NoCrates
            /\ job[j].name = rev_deps[j]
            /\ job[j].base_crate = crates.base
            /\ job[j].next_crate = crates.next
            /\ job[j].pc = "done" => job[j].res = Verdict(job[j].name, job[j].calls))
    /\ [][/\ pc \notin {"get_config", "get_rev_deps", "acquire_crates"} =>
                crates' = crates /\ config' = config /\ rev_deps' = rev_deps
          /\ \A j \in Jobs :
                job'[j] # job[j] =>
                   /\ \A k \in Jobs \ {j} : job'[k] = job[k] /\ chan'[k] = chan[k]
                   /\ job[j].pc # "none" =>
                         UNCHANGED <<pc, config, rev_deps, crates, pool, futures, results, runResult>>]_vars

C18_Witness ==
    /\ Len(futures) >= 3
    /\ crates.base # crates.next
    /\ rev_deps[1] # rev_deps[2]
    /\ job[1].pc = "done" /\ job[1].res = Verdict(rev_deps[1], <<Call("resolve", <<>>, "JsonDecode")>>)
    /\ job[2].pc = "panicked"
    /\ job[3].pc = "resolve"
    /\ \A j \in 1..3 : job[j].base_crate = crates.base /\ job[j].next_crate = crates.next

\* C19 (termination without deadlock): when threads are scheduled fairly and
\* every call returns or panics, run() ends, with the batch error of an aborted
\* run or with every handle collected, however many dependents there are; and
\* whenever the orchestrator waits for a job that has not ended, that job is
\* executing, or it is queued and a worker is free or busy with a job that is
\* executing.
C19_Terminates ==
    /\ <>(pc = "done" /\ runResult # NoRunResult /\ Len(results) = Len(rev_deps))
    /\ [](\A j \in 1..Len(futures) :
            /\ job[j].pc = "queued" =>
                  /\ \E i \in 1..Len(queue) : queue[i] = j
                  /\ Cardinality(running) < pool \/ running # {}
                  /\ running \subseteq Executing
            /\ job[j].pc \in {"resolve", "base", "next"} => j \in running /\ ENABLED JobStep(j))

C19_Witness ==
    /\ Collected
    /\ Len(rev_deps) >= 3
    /\ pool = 1
    /\ job[1].pc = "panicked"
    /\ job[2].pc = "panicked"
    /\ job[3].pc = "done"
    /\ Len(runResult.results) = Len(rev_deps)

TypeOK ==
    /\ pc \in {"get_config", "get_rev_deps", "acquire_crates", "new_pool", "submit", "collect", "done"}
    /\ Len(futures) <= Len(rev_deps)
    /\ Len(results) <= Len(futures)
    /\ pool \in 0..PoolSize
    /\ Cardinality(running) <= PoolSize

====
